---- MODULE Spec2Model ----
(***************************************************************************)
(* Shape-level model of codes/models/audio/music/                          *)
(* unet_diffusion_waveform_gen2.py: construction of the Diffusion U-Net    *)
(* (Diffusion.__init__), its alignment padding (fix_alignment), the        *)
(* structural processor (AudioVAE) and the forward pass, one step per      *)
(* block.  A tensor is its shape [N, C, T] (batch, channels, time); the    *)
(* conditioning embedding and the surrogate also carry the expression      *)
(* that produced their values.  A raised Python exception ends the call    *)
(* in pc = "raised" with its name in error.                                *)
(***************************************************************************)
EXTENDS Integers, Sequences, FiniteSets, TLC

\* ------------------------------------------------------------------ bounds
\* Longest channel_mult / num_res_blocks schedule passed to the constructor.
MaxLevels == 8
\* Largest difference between the lengths of the two schedules.
MaxLengthGap == 1
\* Largest batch size of a forward call.
MaxBatch == 2
\* Largest input length of the AudioVAE when it is called on its own.
MaxVaeLen == 1100
\* Largest input length of a forward call on an already built module.
MaxInputLen == 520

\* --------------------------------------------------------- program constants
\* Diffusion.__init__ keyword defaults.
in_channels == 1
out_channels == 2
kernel_size == 3
scale_factor == 2
\* The floor of alignment_size.
MinAlignment == 256
\* Significand width of a Python float (IEEE-754 binary64), the type of pc.
Mantissa == 53
\* AudioVAE: kernel, padding and stride of its convolutions, interpolation factor.
vae_kernel == 5
vae_padding == 2
vae_stride == 4
vae_scale == 4

\* The default schedules; a multiplier m is held as 2*m so that 1.5 is 3.
\* channel_mult = (1,1.5,2,3,4,6,8,12,16,24,32,48)
DefaultChannelMult == <<2, 3, 4, 6, 8, 12, 16, 24, 32, 48, 64, 96>>
DefaultNumResBlocks == <<1, 1, 1, 1, 1, 2, 2, 2, 2, 2, 2, 2>>

\* ------------------------------------------------------------ small helpers
Min(a, b) == IF a < b THEN a ELSE b
Max(a, b) == IF a > b THEN a ELSE b
Last(s) == s[Len(s)]
Front(s) == SubSeq(s, 1, Len(s) - 1)

NoTensor == [N |-> 0, C |-> 0, T |-> 0]
Tensor(n, c, t) == [N |-> n, C |-> c, T |-> t]

\* int(mult * model_channels), the multiplier held doubled.
IntMult(mult, model_channels) == (mult * model_channels) \div 2

\* ------------------------------------------- Python float arithmetic (binary64)
\* A float is [m, e]: m the significand bits, most significant first and
\* starting with 1 (<<>> for 0.0), e the exponent of its last bit.  Integers
\* here are below 2^18, so every intermediate product stays below 2^31.
\* 2^n for n in 0..30.
PowersOfTwo ==
  <<1, 2, 4, 8, 16, 32, 64, 128, 256, 512, 1024, 2048, 4096, 8192, 16384, 32768,
    65536, 131072, 262144, 524288, 1048576, 2097152, 4194304, 8388608, 16777216,
    33554432, 67108864, 134217728, 268435456, 536870912, 1073741824>>
Pow2(n) == PowersOfTwo[n + 1]

BitLen(n) ==
  IF n = 0 THEN 0
  ELSE CHOOSE b \in 1..30 : Pow2(b - 1) <= n /\ (b = 30 \/ n < Pow2(b))

\* The binary digits of n, without leading zeros.
ToBits(n) ==
  LET len == BitLen(n) IN [i \in 1..len |-> (n \div Pow2(len - i)) % 2]

RECURSIVE FromBits(_)
FromBits(b) ==
  IF b = <<>> THEN 0
  ELSE IF Len(b) = 1 THEN b[1]
  ELSE LET h == Len(b) \div 2
       IN  FromBits(SubSeq(b, 1, h)) * Pow2(Len(b) - h)
             + FromBits(SubSeq(b, h + 1, Len(b)))

\* The bits of a sequence of digits, each w bits wide.
BitsOfDigits(ds, w) ==
  [i \in 1..(Len(ds) * w) |->
     (ds[(i - 1) \div w + 1] \div Pow2(w - 1 - ((i - 1) % w))) % 2]

\* Drop leading zeros.
Normalize(bits) ==
  IF \A i \in 1..Len(bits) : bits[i] = 0 THEN <<>>
  ELSE LET f == CHOOSE i \in 1..Len(bits) :
                  bits[i] = 1 /\ \A j \in 1..(i - 1) : bits[j] = 0
       IN  SubSeq(bits, f, Len(bits))

\* bits + 1
IncBits(b) ==
  IF \A i \in 1..Len(b) : b[i] = 1
  THEN <<1>> \o [i \in 1..Len(b) |-> 0]
  ELSE LET p == CHOOSE i \in 1..Len(b) :
                  b[i] = 0 /\ \A j \in (i + 1)..Len(b) : b[j] = 1
       IN  [i \in 1..Len(b) |-> IF i < p THEN b[i] ELSE IF i = p THEN 1 ELSE 0]

\* Round an exact value bits * 2^e (plus a nonzero tail when sticky) to
\* Mantissa bits, ties to even.
RoundNearestEven(bits, e, sticky) ==
  IF Len(bits) <= Mantissa THEN [m |-> bits, e |-> e]
  ELSE LET keep == SubSeq(bits, 1, Mantissa)
           rest == SubSeq(bits, Mantissa + 1, Len(bits))
           more == sticky \/ \E i \in 2..Len(rest) : rest[i] = 1
           up   == rest[1] = 1 /\ (more \/ keep[Mantissa] = 1)
           m1   == IF up THEN IncBits(keep) ELSE keep
           drop == Len(bits) - Mantissa
       IN  IF Len(m1) > Mantissa
           THEN [m |-> SubSeq(m1, 1, Mantissa), e |-> e + drop + 1]
           ELSE [m |-> m1, e |-> e + drop]

\* Long division of r/b (r < b), 13 bits at a time: n digits of the fraction.
RECURSIVE FracDigits(_, _, _)
FracDigits(r, b, n) ==
  IF n = 0 THEN <<>>
  ELSE <<(r * 8192) \div b>> \o FracDigits((r * 8192) % b, b, n - 1)

\* The remainder left after those n digits.
RECURSIVE FracRem(_, _, _)
FracRem(r, b, n) == IF n = 0 THEN r ELSE FracRem((r * 8192) % b, b, n - 1)

\* a / b on Python ints: the correctly rounded quotient.  78 fraction bits
\* leave at least 60 significant ones, more than Mantissa + 1.
TrueDiv(a, b) ==
  LET bits == Normalize(ToBits(a \div b) \o BitsOfDigits(FracDigits(a % b, b, 6), 13))
  IN  RoundNearestEven(bits, -78, FracRem(a % b, b, 6) # 0)

\* digits * c + carry over 12-bit digits, least significant digit last.
RECURSIVE MulDigits(_, _, _, _)
MulDigits(ds, c, carry, acc) ==
  IF ds = <<>> THEN [carry |-> carry, digits |-> acc]
  ELSE LET t == Last(ds) * c + carry
       IN  MulDigits(Front(ds), c, t \div 4096, <<t % 4096>> \o acc)

\* f * c for a float f and a Python int c: the correctly rounded product.
FloatMulInt(f, c) ==
  IF f.m = <<>> \/ c = 0 THEN [m |-> <<>>, e |-> 0]
  ELSE LET padded == [i \in 1..(60 - Len(f.m)) |-> 0] \o f.m
           digits == [k \in 1..5 |-> FromBits(SubSeq(padded, 12 * (k - 1) + 1, 12 * k))]
           p      == MulDigits(digits, c, 0, <<>>)
       IN  RoundNearestEven(Normalize(ToBits(p.carry) \o BitsOfDigits(p.digits, 12)),
                            f.e, FALSE)

\* int(f): truncation toward zero of a non-negative float.
FloatToInt(f) ==
  IF f.m = <<>> THEN 0
  ELSE IF f.e >= 0 THEN FromBits(f.m) * Pow2(f.e)
  ELSE IF Len(f.m) + f.e <= 0 THEN 0
  ELSE FromBits(SubSeq(f.m, 1, Len(f.m) + f.e))

\* ------------------------------------------------------------- tensor ops
\* Output length of a 1-d convolution with kernel k, padding p, stride s.
ConvLen(t, k, p, s) == (t + 2 * p - k) \div s + 1

\* F.pad(t, (0, n)): n trailing elements on the time axis.
Pad(t, n) == [t EXCEPT !.T = @ + n]

\* Mutant: the slice is forgotten.
TruncateNothing(t, n) == t

\* t[:, :, :n]
Truncate(t, n) == [t EXCEPT !.T = Min(@, n)]

\* torch.cat([a, b], dim=1) is defined when batch and time agree.
CanCat(a, b) == a.N = b.N /\ a.T = b.T
Cat(a, b) == Tensor(a.N, a.C + b.C, a.T)

\* Output length of F.interpolate with an integer scale factor.
InterpolateScale(t, factor) == [t EXCEPT !.T = @ * factor]

\* F.interpolate(t, size=(n,)).
InterpolateSize(t, n) == [t EXCEPT !.T = n]

\* ---------------------------------------------------------- fix_alignment
\* ceil_multiple(base, multiple): the least multiple of `multiple` that is
\* not below base.
ceil_multiple(base, multiple) ==
  IF base % multiple = 0 THEN base ELSE base + (multiple - (base % multiple))

\* int(pc * aligned_conditioning.shape[-1]) with pc = (cm - len) / len, in
\* float arithmetic.
ConditioningPad(cm, len, cond_len) ==
  FloatToInt(FloatMulInt(TrueDiv(cm - len, len), cond_len))

\* Diffusion.fix_alignment: <<x, aligned_conditioning>> after padding.
fix_alignment(alignment_size, x, aligned_conditioning) ==
  LET cm == ceil_multiple(x.T, alignment_size)
  IN  IF cm # 0
      THEN <<Pad(x, cm - x.T),
             Pad(aligned_conditioning, ConditioningPad(cm, x.T, aligned_conditioning.T))>>
      ELSE <<x, aligned_conditioning>>

\* ------------------------------------------------------------------ AudioVAE
level_resblocks == <<1, 1, 2, 2, 2>>
level_ch_mult == <<1, 2, 4, 6, 8>>

\* A layer of a level: its input and output channels and its effect on length.
ResBlockSimple(channels) ==
  [kind |-> "ResBlockSimple", channels |-> channels, out_channels |-> channels,
   stride |-> 1]
Conv1d(channels, out, stride) ==
  [kind |-> "Conv1d", channels |-> channels, out_channels |-> out, stride |-> stride]

\* AudioVAE.__init__: down_levels[i], its residual blocks and, except on the
\* last level, the strided convolution to the next level's width.
DownLevel(channels, i) ==
  [k \in 1..level_resblocks[i] |-> ResBlockSimple(channels * level_ch_mult[i])]
    \o (IF i # Len(level_ch_mult)
        THEN <<Conv1d(channels * level_ch_mult[i], channels * level_ch_mult[i + 1],
                      vae_stride)>>
        ELSE <<>>)

\* AudioVAE.__init__: up_levels[k] walks the schedule in reverse; every level
\* but the first starts with a convolution from the previous level's width.
UpLevel(channels, k) ==
  LET i == Len(level_ch_mult) + 1 - k
  IN  (IF k # 1
       THEN <<Conv1d(channels * level_ch_mult[i + 1], channels * level_ch_mult[i], 1)>>
       ELSE <<>>)
      \o [j \in 1..level_resblocks[i] |-> ResBlockSimple(channels * level_ch_mult[i])]

\* One layer applied to h; a channel mismatch makes the convolution raise,
\* which is NoTensor here.
ApplyLayer(h, layer) ==
  IF h = NoTensor \/ h.C # layer.channels THEN NoTensor
  ELSE Tensor(h.N, layer.out_channels,
              ConvLen(h.T, vae_kernel, vae_padding, layer.stride))

RECURSIVE ApplyLayers(_, _)
ApplyLayers(h, layers) ==
  IF layers = <<>> THEN h
  ELSE ApplyLayers(ApplyLayer(h, layers[1]), Tail(layers))

\* AudioVAE.forward, the down path: the activations after each down level.
RECURSIVE VaeDown(_, _, _)
VaeDown(h, channels, i) ==
  IF i > Len(level_ch_mult) THEN <<>>
  ELSE LET h1 == ApplyLayers(h, DownLevel(channels, i))
       IN  <<h1>> \o VaeDown(h1, channels, i + 1)

\* Mutant: the interpolation also follows the last up level.
RECURSIVE VaeUpInterpolateAll(_, _, _)
VaeUpInterpolateAll(h, channels, k) ==
  IF k > Len(level_ch_mult) THEN <<>>
  ELSE LET h1 == ApplyLayers(h, UpLevel(channels, k))
           h2 == IF h1 # NoTensor THEN InterpolateScale(h1, vae_scale) ELSE h1
       IN  <<h2>> \o VaeUpInterpolateAll(h2, channels, k + 1)

\* AudioVAE.forward, the up path: the activations after each up level,
\* interpolated by 4 except after the last.
RECURSIVE VaeUp(_, _, _)
VaeUp(h, channels, k) ==
  IF k > Len(level_ch_mult) THEN <<>>
  ELSE LET h1 == ApplyLayers(h, UpLevel(channels, k))
           h2 == IF k # Len(level_ch_mult) /\ h1 # NoTensor
                 THEN InterpolateScale(h1, vae_scale) ELSE h1
       IN  <<h2>> \o VaeUp(h2, channels, k + 1)

\* AudioVAE.forward of an AudioVAE(channels): the input followed by the
\* activation after every down level and every up level; the last is the output.
AudioVAE_forward(channels, x) ==
  LET down == VaeDown(x, channels, 1)
  IN  <<x>> \o down \o VaeUp(Last(down), channels, 1)

\* ---------------------------------------------------- Diffusion.__init__
\* ResBlock(channels, ..., out_channels=...): out_channels or channels
\* (None is 0 here).
ResBlock(channels, out) ==
  [kind |-> "ResBlock", channels |-> channels,
   out_channels |-> IF out = 0 THEN channels ELSE out, upsample |-> FALSE]

\* TimestepEmbedSequential(Downsample(ch, ..., out_channels=out_ch, factor=scale_factor)).
Downsample(channels, out) ==
  [kind |-> "Downsample", channels |-> channels, out_channels |-> out,
   upsample |-> FALSE]

\* The first entry of input_blocks: conv_nd(dims, model_channels*2, model_channels, 1).
FirstInputBlock(model_channels) ==
  [kind |-> "conv_nd", channels |-> model_channels * 2,
   out_channels |-> model_channels, upsample |-> FALSE]

\* zip(channel_mult, num_res_blocks): as long as the shorter of the two.
Zip(a, b) == [i \in 1..Min(Len(a), Len(b)) |-> <<a[i], b[i]>>]

\* for _ in range(num_blocks): one ResBlock to int(mult * model_channels).
RECURSIVE EncoderBlocks(_, _, _, _)
EncoderBlocks(st, mult, model_channels, num_blocks) ==
  IF num_blocks = 0 THEN st
  ELSE LET out == IntMult(mult, model_channels)
       IN  EncoderBlocks(
             [st EXCEPT !.input_blocks = Append(@, ResBlock(st.ch, out)),
                        !.ch = out,
                        !.input_block_chans = Append(@, out)],
             mult, model_channels, num_blocks - 1)

\* Mutant: the transition's width is not recorded on the stack.
EncoderDownsampleUnrecorded(st, level, n_mult) ==
  IF level # n_mult - 1
  THEN [st EXCEPT !.input_blocks = Append(@, Downsample(st.ch, st.ch)),
                  !.ds = @ * 2]
  ELSE st

\* The downsample transition that follows a level's blocks unless the level is
\* the last index of channel_mult.
EncoderDownsample(st, level, n_mult) ==
  IF level # n_mult - 1
  THEN [st EXCEPT !.input_blocks = Append(@, Downsample(st.ch, st.ch)),
                  !.input_block_chans = Append(@, st.ch),
                  !.ds = @ * 2]
  ELSE st

\* for level, (mult, num_blocks) in enumerate(zip(channel_mult, num_res_blocks)).
RECURSIVE EncoderLevels(_, _, _, _, _)
EncoderLevels(st, zipped, level, n_mult, model_channels) ==
  IF level >= Len(zipped) THEN st
  ELSE EncoderLevels(
         EncoderDownsample(
           EncoderBlocks(st, zipped[level + 1][1], model_channels, zipped[level + 1][2]),
           level, n_mult),
         zipped, level + 1, n_mult, model_channels)

\* Mutant: the innermost-level test `level and` is dropped.
HasUpsampleAtEveryLevel(level, i, num_blocks) == i = num_blocks

\* `level and i == num_blocks`: where an output block gets its Upsample.
HasUpsample(level, i, num_blocks) == level # 0 /\ i = num_blocks

\* for i in range(num_blocks + 1): pop a recorded width, build the ResBlock.
\* Popping an empty list raises IndexError.
RECURSIVE DecoderBlocks(_, _, _, _, _, _)
DecoderBlocks(st, mult, model_channels, level, i, num_blocks) ==
  IF i > num_blocks \/ st.error # "" THEN st
  ELSE IF st.input_block_chans = <<>> THEN [st EXCEPT !.error = "IndexError"]
  ELSE LET ich == Last(st.input_block_chans)
           out == IntMult(mult, model_channels)
           up  == HasUpsample(level, i, num_blocks)
       IN  DecoderBlocks(
             [st EXCEPT !.input_block_chans = Front(@),
                        !.output_blocks =
                           Append(@, [ResBlock(st.ch + ich, out) EXCEPT !.upsample = up]),
                        !.ch = out,
                        !.ds = IF up THEN @ \div 2 ELSE @],
             mult, model_channels, level, i + 1, num_blocks)

\* for level, (mult, num_blocks) in list(enumerate(zip(...)))[::-1].
RECURSIVE DecoderLevels(_, _, _, _)
DecoderLevels(st, zipped, level, model_channels) ==
  IF level < 0 \/ st.error # "" THEN st
  ELSE DecoderLevels(
         DecoderBlocks(st, zipped[level + 1][1], model_channels, level, 0,
                       zipped[level + 1][2]),
         zipped, level - 1, model_channels)

\* max(2 ** (len(channel_mult)+1), 256)
AlignmentSize(channel_mult) == Max(Pow2(Len(channel_mult) + 1), MinAlignment)

\* self.out: normalization(ch), SiLU, conv_nd(dims, model_channels, out_channels, ...).
OutHead(ch, model_channels) ==
  [norm_channels |-> ch, conv_channels |-> model_channels,
   out_channels |-> out_channels]

\* The whole constructor: the locals of __init__ when it returns (or raises).
Diffusion_init(model_channels, channel_mult, num_res_blocks, use_fp16) ==
  LET zipped == Zip(channel_mult, num_res_blocks)
      st0 == [input_blocks |-> <<FirstInputBlock(model_channels)>>,
              input_block_chans |-> <<model_channels>>,
              ch |-> model_channels, ds |-> 1,
              middle_block |-> ResBlock(0, 0), output_blocks |-> <<>>, error |-> ""]
      enc == EncoderLevels(st0, zipped, 0, Len(channel_mult), model_channels)
      mid == [enc EXCEPT !.middle_block = ResBlock(enc.ch, 0)]
      dec == DecoderLevels(mid, zipped, Len(zipped) - 1, model_channels)
  IN  [model_channels |-> model_channels,
       channel_mult |-> channel_mult,
       enable_fp16 |-> use_fp16,
       alignment_size |-> AlignmentSize(channel_mult),
       input_blocks |-> dec.input_blocks,
       middle_block |-> dec.middle_block,
       output_blocks |-> dec.output_blocks,
       out |-> OutHead(dec.ch, model_channels),
       input_block_chans |-> dec.input_block_chans,
       ds |-> dec.ds,
       error |-> dec.error]

\* ------------------------------------------------------------------- state
VARIABLES
  kwargs,               \* opt_net['kwargs'], the constructor's arguments
  self,                 \* the Diffusion module's attributes
  input_block_chans,    \* __init__'s stack of recorded channel widths
  ds,                   \* __init__'s running downsample factor
  pc,                   \* where the program is
  error,                \* the exception raised, "" when none
  x,                    \* forward: x
  orig_x_shape,         \* forward: orig_x_shape
  conditioning,         \* forward: argument
  aligned_conditioning, \* forward: aligned_conditioning
  conditioning_free,    \* forward: argument
  return_surrogate,     \* forward: argument
  code_emb,             \* forward: code_emb
  surrogate,            \* forward: surrogate
  vae,                  \* activations of the structural processor in this call
  h,                    \* forward: h
  hs,                   \* forward: the skip stack
  k,                    \* forward: blocks of the current loop already applied
  autocast_log,         \* the blocks applied and whether autocast was enabled
  out,                  \* forward: out
  result                \* what forward returned

vars == <<kwargs, self, input_block_chans, ds, pc, error, x, orig_x_shape,
          conditioning, aligned_conditioning, conditioning_free, return_surrogate, code_emb,
          surrogate, vae, h, hs, k, autocast_log, out, result>>

model_vars == <<kwargs, self, input_block_chans, ds>>

NoValue == [N |-> 0, C |-> 0, T |-> 0, val |-> "none"]
NoResult == [out |-> NoTensor, surrogate |-> NoValue]
NoKwargs == [model_channels |-> 0, channel_mult |-> <<>>, num_res_blocks |-> <<>>,
             use_fp16 |-> FALSE]
NoModel == [model_channels |-> 0, channel_mult |-> <<>>, enable_fp16 |-> FALSE,
            alignment_size |-> 0, input_blocks |-> <<>>,
            middle_block |-> ResBlock(0, 0), output_blocks |-> <<>>,
            out |-> OutHead(0, 0)]

\* The locals of a forward call before it starts.
NoCall ==
  /\ error = ""
  /\ x = NoTensor
  /\ orig_x_shape = 0
  /\ conditioning = NoTensor
  /\ aligned_conditioning = NoTensor
  /\ conditioning_free = FALSE
  /\ return_surrogate = FALSE
  /\ code_emb = NoValue
  /\ surrogate = NoValue
  /\ vae = <<>>
  /\ h = NoTensor
  /\ hs = <<>>
  /\ k = 0
  /\ autocast_log = <<>>
  /\ out = NoTensor
  /\ result = NoResult

Init ==
  /\ kwargs = NoKwargs
  /\ self = NoModel
  /\ input_block_chans = <<>>
  /\ ds = 0
  /\ pc = "new"
  /\ NoCall

\* ------------------------------------------------------------------ inputs
\* model_channels: a width the normalization layers accept.
ModelChannels == {8}

\* The __main__ block's num_res_blocks.
MainNumResBlocks == <<2, 2, 2, 2, 2, 2, 1>>

\* Schedules: slices of the defaults of every length up to MaxLevels, starting
\* at the first multiplier (1) or the second (1.5), and the __main__ schedule.
ChannelMults ==
  {SubSeq(DefaultChannelMult, i, i + n - 1) : i \in 1..2, n \in 1..MaxLevels}
NumResBlocks ==
  {SubSeq(DefaultNumResBlocks, j, j + n - 1) : j \in {1, 4}, n \in 1..MaxLevels}
    \cup {MainNumResBlocks}

\* Input lengths of a forward call: shorter than, equal to and longer than the
\* smallest alignment, and the __main__ block's length scaled down by 100.
XLengths == {49, 256, 328}
\* Conditioning lengths other than the input's own.
CondLengths == {100}

\* ----------------------------------------------------------------- actions
\* register_unet_diffusion_waveform_gen2: Diffusion(**opt_net['kwargs']).
Construct ==
  /\ pc = "new"
  /\ \E mc \in ModelChannels, cm \in ChannelMults, nrb \in NumResBlocks,
        fp16 \in BOOLEAN :
       LET m == Diffusion_init(mc, cm, nrb, fp16)
       IN  /\ Len(cm) - Len(nrb) \in -MaxLengthGap..MaxLengthGap
           /\ kwargs' = [model_channels |-> mc, channel_mult |-> cm,
                         num_res_blocks |-> nrb, use_fp16 |-> fp16]
           /\ input_block_chans' = m.input_block_chans
           /\ ds' = m.ds
           /\ IF m.error = ""
              THEN /\ self' = [f \in DOMAIN NoModel |-> m[f]]
                   /\ pc' = "idle"
                   /\ error' = ""
              ELSE /\ self' = NoModel
                   /\ pc' = "init_raised"
                   /\ error' = m.error
  /\ UNCHANGED <<x, orig_x_shape, conditioning, aligned_conditioning,
                 conditioning_free, return_surrogate, code_emb, surrogate, vae,
                 h, hs, k, autocast_log, out, result>>

\* The exception `name` leaves forward.
Raise(name) ==
  /\ pc' = "raised"
  /\ error' = name

\* forward(x, timesteps, conditioning, return_surrogate, conditioning_free):
\* orig_x_shape and fix_alignment.
ForwardBegin(batch, len, cond_len, rs, cf) ==
  /\ pc = "idle"
  /\ LET fixed == fix_alignment(self.alignment_size,
                                Tensor(batch, in_channels, len),
                                Tensor(batch, in_channels, cond_len))
     IN  /\ x' = fixed[1]
         /\ aligned_conditioning' = fixed[2]
  /\ orig_x_shape' = len
  /\ conditioning' = Tensor(batch, in_channels, cond_len)
  /\ return_surrogate' = rs
  /\ conditioning_free' = cf
  /\ pc' = "derive"
  /\ UNCHANGED <<model_vars, error, code_emb, surrogate, vae, h, hs, k,
                 autocast_log, out, result>>

\* self.unconditioned_embedding, of shape (1, model_channels, 1), under
\* .repeat(x.shape[0], 1, 1).
UnconditionedEmbedding(model_channels, t) ==
  [N |-> t.N, C |-> model_channels, T |-> 1, val |-> "unconditioned_embedding"]

\* The conditioning block: the unconditioned embedding and a zero surrogate,
\* or the structural processor's latent resampled to x's length and the
\* surrogate head's output.
DeriveConditioning ==
  /\ pc = "derive"
  /\ IF conditioning_free
     THEN /\ code_emb' = UnconditionedEmbedding(self.model_channels, x)
          /\ surrogate' = [N |-> x.N, C |-> x.C, T |-> x.T, val |-> "zeros"]
          /\ vae' = <<>>
          /\ pc' = "concat"
          /\ UNCHANGED error
     ELSE LET cond_in == ApplyLayer(aligned_conditioning,
                                    Conv1d(in_channels, self.model_channels, 1))
              trace == AudioVAE_forward(self.model_channels, cond_in)
              emb == InterpolateSize(Last(trace), x.T)
          IN  IF cond_in = NoTensor \/ Last(trace) = NoTensor
              THEN /\ Raise("RuntimeError")
                   /\ UNCHANGED <<code_emb, surrogate, vae>>
              ELSE /\ code_emb' = [N |-> emb.N, C |-> emb.C, T |-> emb.T,
                                   val |-> "structural_processor"]
                   /\ surrogate' = [N |-> emb.N, C |-> in_channels, T |-> emb.T,
                                    val |-> "surrogate_head"]
                   /\ vae' = trace
                   /\ pc' = "concat"
                   /\ UNCHANGED error
  /\ UNCHANGED <<model_vars, x, orig_x_shape, conditioning, aligned_conditioning,
                 conditioning_free, return_surrogate, h, hs, k, autocast_log,
                 out, result>>

\* padding = 1 if kernel_size == 3 else 2
Padding == IF kernel_size = 3 THEN 1 ELSE 2

\* x = self.input_block(x); x = torch.cat([x, code_emb], dim=1); hs = []; h = x.
ConcatInput ==
  /\ pc = "concat"
  /\ LET x1 == Tensor(x.N, self.model_channels, ConvLen(x.T, kernel_size, Padding, 1))
     IN  IF CanCat(x1, code_emb)
         THEN /\ x' = Cat(x1, code_emb)
              /\ h' = Cat(x1, code_emb)
              /\ pc' = "encoder"
              /\ UNCHANGED error
         ELSE /\ Raise("RuntimeError")
              /\ UNCHANGED <<x, h>>
  /\ hs' = <<>>
  /\ k' = 0
  /\ UNCHANGED <<model_vars, orig_x_shape, conditioning, aligned_conditioning,
                 conditioning_free, return_surrogate, code_emb, surrogate, vae,
                 autocast_log, out, result>>

\* down_kernel = 1 if efficient_convs else 3, with the default efficient_convs=True.
down_kernel == 1
\* pad=0 if down_kernel == 1 else 1
DownPad == IF down_kernel = 1 THEN 0 ELSE 1

\* A block of input_blocks, middle_block or output_blocks accepts h when h has
\* the channels its first layer was built for.
Accepts(block, t) == t.C = block.channels

\* Downsample.forward (models.diffusion.unet_diffusion): a convolution of
\* kernel ksize, padding pad and stride factor.
Downsample_forward(t) ==
  [t EXCEPT !.T = ConvLen(@, down_kernel, DownPad, scale_factor)]

\* Upsample.forward (models.diffusion.unet_diffusion): F.interpolate by factor,
\* then a length-preserving convolution.
Upsample_forward(t) == InterpolateScale(t, scale_factor)

\* The block's output: same length for a convolution or ResBlock, Downsample's
\* for a Downsample, a ResBlock followed by an Upsample for an output block
\* that ends in one.
ApplyBlock(block, t) ==
  LET r == Tensor(t.N, block.out_channels, t.T)
  IN  IF block.kind = "Downsample" THEN Downsample_forward(r)
      ELSE IF block.upsample THEN Upsample_forward(r)
      ELSE r

\* `self.enable_fp16 and not first`: `first` is bound nowhere, so the right
\* operand raises NameError whenever the left one does not decide the result.
InnerAutocast(enable_fp16) ==
  IF enable_fp16 THEN [raises |-> TRUE, enabled |-> FALSE]
  ELSE [raises |-> FALSE, enabled |-> FALSE]

LogEntry(name, index, enabled) == [block |-> name, index |-> index, autocast |-> enabled]

\* for k, module in enumerate(self.input_blocks): h = module(h, time_emb); hs.append(h).
EncoderBlock ==
  /\ pc = "encoder"
  /\ k < Len(self.input_blocks)
  /\ LET module == self.input_blocks[k + 1]
         cast == InnerAutocast(self.enable_fp16)
     IN  IF cast.raises
         THEN /\ Raise("NameError")
              /\ UNCHANGED <<h, hs, k, autocast_log>>
         ELSE IF ~Accepts(module, h)
         THEN /\ Raise("RuntimeError")
              /\ UNCHANGED <<h, hs, k, autocast_log>>
         ELSE /\ h' = ApplyBlock(module, h)
              /\ hs' = Append(hs, ApplyBlock(module, h))
              /\ k' = k + 1
              /\ autocast_log' = Append(autocast_log, LogEntry("input_blocks", k, cast.enabled))
              /\ UNCHANGED <<pc, error>>
  /\ UNCHANGED <<model_vars, x, orig_x_shape, conditioning, aligned_conditioning,
                 conditioning_free, return_surrogate, code_emb, surrogate, vae,
                 out, result>>

\* h = self.middle_block(h, time_emb), under the outer autocast.
MiddleBlock ==
  /\ pc = "encoder"
  /\ k = Len(self.input_blocks)
  /\ IF ~Accepts(self.middle_block, h)
     THEN /\ Raise("RuntimeError")
          /\ UNCHANGED <<h, k, autocast_log>>
     ELSE /\ h' = ApplyBlock(self.middle_block, h)
          /\ k' = 0
          /\ autocast_log' = Append(autocast_log, LogEntry("middle_block", 0, self.enable_fp16))
          /\ pc' = "decoder"
          /\ UNCHANGED error
  /\ UNCHANGED <<model_vars, x, orig_x_shape, conditioning, aligned_conditioning,
                 conditioning_free, return_surrogate, code_emb, surrogate, vae,
                 hs, out, result>>

\* for module in self.output_blocks: h = torch.cat([h, hs.pop()], dim=1);
\* h = module(h, time_emb).
DecoderBlock ==
  /\ pc = "decoder"
  /\ k < Len(self.output_blocks)
  /\ LET module == self.output_blocks[k + 1]
     IN  IF hs = <<>>
         THEN /\ Raise("IndexError")
              /\ UNCHANGED <<h, hs, k, autocast_log>>
         ELSE IF ~CanCat(h, Last(hs))
         THEN /\ Raise("RuntimeError")
              /\ hs' = Front(hs)
              /\ UNCHANGED <<h, k, autocast_log>>
         ELSE IF ~Accepts(module, Cat(h, Last(hs)))
         THEN /\ Raise("RuntimeError")
              /\ h' = Cat(h, Last(hs))
              /\ hs' = Front(hs)
              /\ UNCHANGED <<k, autocast_log>>
         ELSE /\ h' = ApplyBlock(module, Cat(h, Last(hs)))
              /\ hs' = Front(hs)
              /\ k' = k + 1
              /\ autocast_log' = Append(autocast_log, LogEntry("output_blocks", k, self.enable_fp16))
              /\ UNCHANGED <<pc, error>>
  /\ UNCHANGED <<model_vars, x, orig_x_shape, conditioning, aligned_conditioning,
                 conditioning_free, return_surrogate, code_emb, surrogate, vae,
                 out, result>>

\* h = h.float(); out = self.out(h), outside the autocast block; the zero-weighted
\* extraneous parameters change no shape.
FinalHead ==
  /\ pc = "decoder"
  /\ k = Len(self.output_blocks)
  /\ IF h.C # self.out.norm_channels \/ h.C # self.out.conv_channels
     THEN /\ Raise("RuntimeError")
          /\ UNCHANGED <<out, autocast_log>>
     ELSE /\ out' = Tensor(h.N, self.out.out_channels, ConvLen(h.T, kernel_size, Padding, 1))
          /\ autocast_log' = Append(autocast_log, LogEntry("out", 0, FALSE))
          /\ pc' = "return"
          /\ UNCHANGED error
  /\ UNCHANGED <<model_vars, x, orig_x_shape, conditioning, aligned_conditioning,
                 conditioning_free, return_surrogate, code_emb, surrogate, vae,
                 h, hs, k, result>>

\* return out[:, :, :orig_x_shape], surrogate[:, :, :orig_x_shape]  (or out alone).
Return ==
  /\ pc = "return"
  /\ result' = [out |-> Truncate(out, orig_x_shape),
                surrogate |-> IF return_surrogate
                              THEN Truncate(surrogate, orig_x_shape)
                              ELSE NoValue]
  /\ pc' = "returned"
  /\ UNCHANGED <<model_vars, error, x, orig_x_shape, conditioning, aligned_conditioning,
                 conditioning_free, return_surrogate, code_emb, surrogate, vae,
                 h, hs, k, autocast_log, out>>

\* The call is over (returned or raised); the module is ready for the next one.
NextCall ==
  /\ pc \in {"returned", "raised"}
  /\ pc' = "idle"
  /\ error' = ""
  /\ x' = NoTensor
  /\ orig_x_shape' = 0
  /\ conditioning' = NoTensor
  /\ aligned_conditioning' = NoTensor
  /\ conditioning_free' = FALSE
  /\ return_surrogate' = FALSE
  /\ code_emb' = NoValue
  /\ surrogate' = NoValue
  /\ vae' = <<>>
  /\ h' = NoTensor
  /\ hs' = <<>>
  /\ k' = 0
  /\ autocast_log' = <<>>
  /\ out' = NoTensor
  /\ result' = NoResult
  /\ UNCHANGED model_vars

Forward ==
  \E batch \in 1..MaxBatch, len \in XLengths, rs \in BOOLEAN, cf \in BOOLEAN :
    \E cond_len \in {len} \cup CondLengths :
      ForwardBegin(batch, len, cond_len, rs, cf)

Next ==
  \/ Construct
  \/ Forward
  \/ DeriveConditioning
  \/ ConcatInput
  \/ EncoderBlock
  \/ MiddleBlock
  \/ DecoderBlock
  \/ FinalHead
  \/ Return
  \/ NextCall

Spec == Init /\ [][Next]_vars

\* ------------------------------------------- the structural processor alone
\* model_channels of the AudioVAE built on its own.
VaeChannels == {8, 16}

\* AudioVAE(channels, dropout) built and applied to a batch of one.
AudioVAE_call ==
  /\ pc = "new"
  /\ \E channels \in VaeChannels, len \in 1..MaxVaeLen :
       vae' = AudioVAE_forward(channels, Tensor(1, channels, len))
  /\ pc' = "vae_done"
  /\ UNCHANGED <<model_vars, error, x, orig_x_shape, conditioning,
                 aligned_conditioning, conditioning_free, return_surrogate,
                 code_emb, surrogate, h, hs, k, autocast_log, out, result>>

NextVAE == AudioVAE_call

SpecVAE == Init /\ [][NextVAE]_vars

\* ------------------------------------- forward calls on a module already built
\* The default schedules cut to one level and to MaxLevels levels, full precision.
BuiltKwargs ==
  {[model_channels |-> mc,
    channel_mult |-> SubSeq(DefaultChannelMult, 1, n),
    num_res_blocks |-> SubSeq(DefaultNumResBlocks, 1, n),
    use_fp16 |-> FALSE] : mc \in ModelChannels, n \in {1, MaxLevels}}

InitBuilt ==
  /\ \E kw \in BuiltKwargs :
       LET m == Diffusion_init(kw.model_channels, kw.channel_mult,
                               kw.num_res_blocks, kw.use_fp16)
       IN  /\ kwargs = kw
           /\ self = [f \in DOMAIN NoModel |-> m[f]]
           /\ input_block_chans = m.input_block_chans
           /\ ds = m.ds
  /\ pc = "idle"
  /\ NoCall

\* Every input length up to MaxInputLen, with a conditioning of the same
\* length or of another one; the surrogate is asked for.
ForwardLengths ==
  \E len \in 1..MaxInputLen :
    \E cond_len \in {len} \cup CondLengths :
      ForwardBegin(1, len, cond_len, TRUE, FALSE)

NextLengths ==
  \/ ForwardLengths
  \/ DeriveConditioning
  \/ ConcatInput
  \/ EncoderBlock
  \/ MiddleBlock
  \/ DecoderBlock
  \/ FinalHead
  \/ Return
  \/ NextCall

SpecLengths == InitBuilt /\ [][NextLengths]_vars

\* ------------------------------------------------------------------ claims
\* The two schedules given to the constructor have the same length.
EqualSchedules == Len(kwargs.channel_mult) = Len(kwargs.num_res_blocks)

\* A forward call is under way or over.
InCall == pc \in {"derive", "concat", "encoder", "decoder", "return", "returned", "raised"}

\* The decoder loop is about to apply output_blocks[k].
AtDecoderBlock == pc = "decoder" /\ k < Len(self.output_blocks)

\* The decoder loop is over and the final head comes next.
AfterDecoder == pc = "decoder" /\ k = Len(self.output_blocks)

\* C1: once the constructor has been called with a channel_mult and a
\* num_res_blocks of different lengths, it has raised: no module exists.
C1_MismatchedSchedulesRejected ==
  (pc # "new" /\ ~EqualSchedules) => pc = "init_raised"

\* A module built from a num_res_blocks shorter than its channel_mult is
\* there, and a forward call on it has begun.
C1_Witness ==
  /\ Len(kwargs.num_res_blocks) < Len(kwargs.channel_mult)
  /\ InCall
  /\ Len(self.input_blocks) > 1

\* C2: during a forward call the padded input length is a multiple of
\* max(2^(levels+1), 256) and not below the original length L >= 1, and the
\* main output and the surrogate that the call returns have length exactly L.
C2_PadTruncateRoundTrip ==
  LET multiple == Max(Pow2(Len(kwargs.channel_mult) + 1), 256)
  IN  /\ InCall =>
           /\ orig_x_shape >= 1
           /\ x.T % multiple = 0
           /\ x.T >= orig_x_shape
           /\ x.T - orig_x_shape < multiple
      /\ pc = "returned" =>
           /\ result.out.T = orig_x_shape
           /\ return_surrogate => result.surrogate.T = orig_x_shape

\* A call on a module of at least 8 levels (alignment 2^(levels+1)), with an
\* input that needed padding, has returned its output and its surrogate.
C2_Witness ==
  /\ pc = "returned"
  /\ return_surrogate
  /\ Len(kwargs.channel_mult) >= 8
  /\ x.T > orig_x_shape
  /\ orig_x_shape > 256

\* C3: a forward call in conditioning-free mode comes back with a surrogate
\* that is zero everywhere, its conditioning embedding being the learned
\* unconditioned embedding repeated over the batch.
C3_ConditioningFreeReturnsZeroSurrogate ==
  (conditioning_free /\ pc \in {"returned", "raised"}) =>
     /\ pc = "returned"
     /\ code_emb.val = "unconditioned_embedding"
     /\ return_surrogate => result.surrogate.val = "zeros"

\* A conditioning-free call has stopped at torch.cat without returning.
C3_Witness ==
  /\ conditioning_free
  /\ pc = "raised"
  /\ error = "RuntimeError"
  /\ result = NoResult

\* C4: with schedules of equal length there are as many encoder blocks as
\* decoder blocks, the constructor's stack of widths is emptied exactly, the
\* skip stack holds one activation per encoder block applied and one per
\* decoder block still to come, is never popped empty and is empty after the
\* decoder pass, and the concatenation fed to each decoder block has the
\* channels that block was built for.
C4_SkipStackBalance ==
  (pc # "new" /\ EqualSchedules) =>
     /\ pc # "init_raised"
     /\ Len(self.input_blocks) = Len(self.output_blocks)
     /\ input_block_chans = <<>>
     /\ error # "IndexError"
     /\ pc = "encoder" => Len(hs) = k
     /\ pc = "decoder" => Len(hs) = Len(self.output_blocks) - k
     /\ AtDecoderBlock =>
          /\ hs # <<>>
          /\ h.C + Last(hs).C = self.output_blocks[k + 1].channels
     /\ pc \in {"return", "returned"} => hs = <<>>

\* The decoder pass of a module of at least 3 levels is over, every skip
\* activation consumed.
C4_Witness ==
  /\ EqualSchedules
  /\ Len(kwargs.channel_mult) >= 3
  /\ AfterDecoder
  /\ k > 3
  /\ hs = <<>>

\* C5: an AudioVAE input whose length is a multiple of 256 comes out with the
\* same length and the same channels, the up path running through the widths
\* 8, 6, 4, 2, 1 times the input's.
C5_AudioVAERoundTrip ==
  (vae # <<>> /\ vae[1].T % 256 = 0) =>
     /\ Len(vae) = 11
     /\ Last(vae).T = vae[1].T
     /\ Last(vae).C = vae[1].C
     /\ \A j \in 1..5 : vae[6 + j].C = <<8, 6, 4, 2, 1>>[j] * vae[1].C

\* The AudioVAE has been applied to an input of length 768.
C5_Witness ==
  /\ vae # <<>>
  /\ vae[1].T = 768
  /\ Last(vae).T = 768

\* C6: no forward call stops at the autocast of the first encoder block; on a
\* reduced-precision module the first encoder block and the final head run
\* with autocast disabled and every other block with autocast enabled, and on
\* a full-precision module every block runs with autocast disabled.
C6_FirstBlockAndHeadFullPrecision ==
  /\ error # "NameError"
  /\ \A i \in DOMAIN autocast_log :
       autocast_log[i].autocast =
         (/\ self.enable_fp16
          /\ ~(autocast_log[i].block = "input_blocks" /\ autocast_log[i].index = 0)
          /\ autocast_log[i].block # "out")

\* A call on a reduced-precision module has stopped at the first encoder
\* block, before any block ran.
C6_Witness ==
  /\ self.enable_fp16
  /\ pc = "raised"
  /\ error = "NameError"
  /\ autocast_log = <<>>

\* C7: fix_alignment appends floor(C*(P-L)/L) elements to a conditioning of
\* length C, so that C = L gives a padded conditioning of length P, and an
\* aligned L leaves both tensors as they are.
C7_ProportionalConditioningPadding ==
  InCall =>
     /\ aligned_conditioning.T - conditioning.T
          = (conditioning.T * (x.T - orig_x_shape)) \div orig_x_shape
     /\ conditioning.T = orig_x_shape => aligned_conditioning.T = x.T
     /\ orig_x_shape % self.alignment_size = 0 =>
          /\ x.T = orig_x_shape
          /\ aligned_conditioning.T = conditioning.T

\* Input and conditioning of length 49: the input is padded to 256, the
\* conditioning to 255.
C7_Witness ==
  /\ InCall
  /\ orig_x_shape = 49
  /\ conditioning.T = 49
  /\ x.T = 256
  /\ aligned_conditioning.T = 255

\* C8: the conditioning embedding about to be concatenated has model_channels
\* channels and the batch size and length of the padded input, and the tensor
\* that enters the first encoder block is batch x 2*model_channels x padded length.
C8_ConcatenationWellFormed ==
  /\ pc = "concat" =>
       /\ code_emb.C = self.model_channels
       /\ code_emb.N = x.N
       /\ code_emb.T = x.T
  /\ (pc = "encoder" /\ k = 0) =>
       h = Tensor(conditioning.N, 2 * self.model_channels, x.T)

\* A conditioning-free call reaches the concatenation with an embedding of
\* length 1 beside a padded input of length 256 or more.
C8_Witness ==
  /\ pc = "concat"
  /\ conditioning_free
  /\ code_emb.T = 1
  /\ x.T >= 256

\* The number of downsample transitions among the blocks, and of upsample ones.
NumDownsamples(blocks) == Cardinality({i \in DOMAIN blocks : blocks[i].kind = "Downsample"})
NumUpsamples(blocks) == Cardinality({i \in DOMAIN blocks : blocks[i].upsample})

\* C9: with schedules of equal length n the encoder holds n-1 downsample
\* transitions and the decoder n-1 upsample transitions, at every decoder block
\* the current features and the skip activation on top of the stack have the
\* same length, and the features that leave the last decoder block have the
\* padded input's length.
C9_ResolutionsMatch ==
  (pc # "new" /\ EqualSchedules) =>
     /\ NumDownsamples(self.input_blocks) = Len(kwargs.channel_mult) - 1
     /\ NumUpsamples(self.output_blocks) = Len(kwargs.channel_mult) - 1
     /\ AtDecoderBlock => h.T = Last(hs).T
     /\ AfterDecoder => h.T = x.T

\* The decoder pass of a module of at least 3 levels is over, back at the
\* padded input's length after having been below it.
C9_Witness ==
  /\ EqualSchedules
  /\ Len(kwargs.channel_mult) >= 3
  /\ AfterDecoder
  /\ h.T = x.T
  /\ NumUpsamples(self.output_blocks) >= 2

\* C10: the features that leave the last decoder block have the channels that
\* the final normalization and the final convolution were built for.
C10_FinalHeadAcceptsDecoderOutput ==
  AfterDecoder =>
     /\ h.C = self.out.norm_channels
     /\ h.C = self.out.conv_channels

\* The decoder of a module whose channel_mult starts with 1.5 hands 12
\* channels to a final convolution built for 8.
C10_Witness ==
  /\ AfterDecoder
  /\ kwargs.channel_mult[1] = 3
  /\ h.C = 12
  /\ self.out.conv_channels = 8

====
